---- MODULE Spec2Model ----
(***************************************************************************)
(* Model of the client-side cart store (useCartStore) of the storefront    *)
(* application.  The store holds one field, `cart`, an array of            *)
(* {product, quantity} items, and exposes addToCart, removeFromCart,       *)
(* updateCartQuantity, getCartItemCount and clearCart.  Every store        *)
(* operation runs synchronously on the single UI thread, so each call is   *)
(* one atomic action.                                                      *)
(*                                                                         *)
(* A product is modelled by the three fields the store reads: id, price    *)
(* and inventory.  name, description and image_base64 are carried along    *)
(* by the store but never inspected, so they are left out.  Product ids    *)
(* are opaque strings compared with ===; they are modelled as 1..N.        *)
(***************************************************************************)
EXTENDS Integers, Sequences, FiniteSets, Bags, TLC

\* ------------------------------------------------------------------ bounds
NumProducts == 2      \* distinct product ids offered by the backend
MaxInventory == 2     \* largest inventory figure a fetched product carries

ProductIds == 1..NumProducts
\* inventory is validated as a non-negative integer when a product is saved
Inventories == 0..MaxInventory
\* price is validated as positive when a product is saved.  The store never
\* reads it in a transition, so the catalogue gives each id one price while
\* the inventory figure of an id varies from fetch to fetch.
PriceOf(productId) == productId
\* newQuantity arguments: one negative value, zero, every value up to the
\* largest inventory, and one value above every inventory
Quantities == {0 - 1} \cup (0..(MaxInventory + 1))
\* the counter of successive addToCart calls saturates above every inventory
MaxRun == MaxInventory + 2

\* ------------------------------------------------------------- data model
Product ==
    {[id |-> i, price |-> PriceOf(i), inventory |-> n] :
        i \in ProductIds, n \in Inventories}

NoProduct == [id |-> 0, price |-> 0, inventory |-> 0]

CartItem(product, quantity) == [product |-> product, quantity |-> quantity]

\* --------------------------------------------------- auth store: bounds
NumAccounts == 1      \* customer accounts, and admin accounts, that can log in
MaxInFlight == 2      \* AuthStore calls whose promise is pending at one time

AccountIds == 1..NumAccounts

\* ----------------------------------------------- auth store: data model
\* Every JavaScript value the auth store handles is one record shape:
\*   kind "null"    null
\*   kind "object"  a User (role "customer") or an Admin (role "admin");
\*                  id stands for all its fields
\*   kind "json"    the string JSON.stringify gives for that object
\*   kind "token"   the access token the backend issued for that account
\*   kind "tag"     the string 'customer' or 'admin'
\*   kind "garbage" a stored string that is not JSON
Value(kind, role, id) == [id |-> id, kind |-> kind, role |-> role]

Null == Value("null", "none", 0)
Garbage == Value("garbage", "none", 0)
User(id) == Value("object", "customer", id)
Admin(id) == Value("object", "admin", id)
\* access_token of the backend's login response for that user or admin
TokenOf(who) == Value("token", who.role, who.id)
Tag(role) == Value("tag", role, 0)

Users == {User(id) : id \in AccountIds}
Admins == {Admin(id) : id \in AccountIds}

\* JSON.stringify of a User or Admin object
JSONstringify(object) == [object EXCEPT !.kind = "json"]
\* JSON.parse succeeds on the strings JSON.stringify produced
Parseable(string) == string.kind = "json"
\* JSON.parse of such a string
JSONparse(string) == [string EXCEPT !.kind = "object"]

\* the four AsyncStorage keys
Keys == {"auth_token", "user_data", "admin_data", "user_type"}
NoKeys == [k \in Keys |-> Null]

VARIABLES
    cart,      \* CartStore.cart : CartItem[]
    op,        \* the last store call and its arguments (observation)
    before,    \* the value of cart when that call started (observation)
    addRun,    \* number of successive addToCart(p) calls with the same p
               \* since a cart without p; 0 when no such run is under way
    returned,  \* what that call returned: <<v>> for a value, <<>> for void
    auth,      \* AuthStore state: isLoggedIn, user, admin, token, userType
    storage,   \* AsyncStorage: the value under each of the four keys
    calls,     \* the bag of AuthStore calls in flight
    ev,        \* the last step of an AuthStore call (observation)
    written,   \* a login or logout has run its set() since process start
    route,     \* the screen the router shows
    race,      \* the calls made since no call was in flight (observation)
    checkout,  \* the Checkout screen: loading and its running onSubmit
    poll       \* the PaymentSuccess screen: its state and its running polls

cartVars == <<cart, op, before, addRun, returned>>

authVars == <<auth, storage, calls, ev, written>>

screenVars == <<route, race, checkout, poll>>

vars == <<cartVars, authVars, screenVars>>

\* --------------------------------------------------------- array helpers
\* Array.prototype.find on the product id: index of the first match, 0 if none
FindIndex(c, productId) ==
    IF \E i \in 1..Len(c) : c[i].product.id = productId
    THEN CHOOSE i \in 1..Len(c) :
            /\ c[i].product.id = productId
            /\ \A j \in 1..(i - 1) : c[j].product.id # productId
    ELSE 0

InCart(c, productId) == FindIndex(c, productId) # 0

\* quantity of the first item with that id, 0 when there is none
QuantityOf(c, productId) ==
    IF InCart(c, productId) THEN c[FindIndex(c, productId)].quantity ELSE 0

Min(a, b) == IF a <= b THEN a ELSE b

\* ------------------------------------------------------ store operations
\* Array.prototype.filter(item => item.product.id !== productId)
RECURSIVE FilterOut(_, _)
FilterOut(c, productId) ==
    IF c = <<>> THEN <<>>
    ELSE IF Head(c).product.id # productId
         THEN <<Head(c)>> \o FilterOut(Tail(c), productId)
         ELSE FilterOut(Tail(c), productId)

\* state.cart.map(item => item.product.id === productId
\*                        ? { ...item, quantity: item.quantity + 1 } : item)
IncQuantity(c, productId) ==
    [i \in 1..Len(c) |->
        IF c[i].product.id = productId
        THEN [c[i] EXCEPT !.quantity = @ + 1]
        ELSE c[i]]

\* state.cart.map(item => item.product.id === productId
\*                        ? { ...item, quantity: newQuantity } : item)
SetQuantity(c, productId, newQuantity) ==
    [i \in 1..Len(c) |->
        IF c[i].product.id = productId
        THEN [c[i] EXCEPT !.quantity = newQuantity]
        ELSE c[i]]

\* addToCart that never looks for an existing item
addToCart_AlwaysAppend(c, product) ==
    IF product.inventory = 0
    THEN c
    ELSE c \o <<CartItem(product, 1)>>

\* addToCart that puts a new item in front: [{ product, quantity: 1 }, ...cart]
addToCart_Prepend(c, product) ==
    LET idx == FindIndex(c, product.id)
    IN  IF idx # 0
        THEN IF c[idx].quantity >= product.inventory
             THEN c
             ELSE IncQuantity(c, product.id)
        ELSE IF product.inventory = 0
             THEN c
             ELSE <<CartItem(product, 1)>> \o c

\* addToCart whose ceiling test is > instead of >=
addToCart_OffByOne(c, product) ==
    LET idx == FindIndex(c, product.id)
    IN  IF idx # 0
        THEN IF c[idx].quantity > product.inventory
             THEN c
             ELSE IncQuantity(c, product.id)
        ELSE IF product.inventory = 0
             THEN c
             ELSE c \o <<CartItem(product, 1)>>

\* the state update of addToCart(product)
addToCart(c, product) ==
    LET idx == FindIndex(c, product.id)
    IN  IF idx # 0
        THEN IF c[idx].quantity >= product.inventory
             THEN c
             ELSE IncQuantity(c, product.id)
        ELSE IF product.inventory = 0
             THEN c
             ELSE c \o <<CartItem(product, 1)>>

\* removeFromCart whose filter test is === instead of !==
removeFromCart_KeepsMatch(c, productId) ==
    SelectSeq(c, LAMBDA item : item.product.id = productId)

\* the state update of removeFromCart(productId)
removeFromCart(c, productId) == FilterOut(c, productId)

\* updateCartQuantity without the newQuantity === 0 branch
updateCartQuantity_NoZeroBranch(c, productId, newQuantity) ==
    LET idx == FindIndex(c, productId)
    IN  IF idx # 0 /\ newQuantity > c[idx].product.inventory
        THEN c
        ELSE SetQuantity(c, productId, newQuantity)

\* updateCartQuantity without the inventory test
updateCartQuantity_NoInventoryCheck(c, productId, newQuantity) ==
    IF newQuantity = 0
    THEN removeFromCart(c, productId)
    ELSE SetQuantity(c, productId, newQuantity)

\* updateCartQuantity whose inventory test is >= instead of >
updateCartQuantity_RejectAtInventory(c, productId, newQuantity) ==
    LET idx == FindIndex(c, productId)
    IN  IF newQuantity = 0
        THEN removeFromCart(c, productId)
        ELSE IF idx # 0 /\ newQuantity >= c[idx].product.inventory
             THEN c
             ELSE SetQuantity(c, productId, newQuantity)

\* the state update of updateCartQuantity(productId, newQuantity)
updateCartQuantity(c, productId, newQuantity) ==
    LET idx == FindIndex(c, productId)
    IN  IF newQuantity = 0
        THEN removeFromCart(c, productId)
        ELSE IF idx # 0 /\ newQuantity > c[idx].product.inventory
             THEN c
             ELSE SetQuantity(c, productId, newQuantity)

\* clearCart that drops only the first item: set({ cart: cart.slice(1) })
clearCart_DropsFirst(c) == IF c = <<>> THEN <<>> ELSE Tail(c)

\* the state update of clearCart()
clearCart(c) == <<>>

\* getCartTotal that adds the unit price once per line item
RECURSIVE getCartTotal_IgnoresQuantity(_)
getCartTotal_IgnoresQuantity(c) ==
    IF c = <<>> THEN 0
    ELSE getCartTotal_IgnoresQuantity(SubSeq(c, 1, Len(c) - 1))
            + c[Len(c)].product.price

\* getCartTotal():
\*   reduce((sum, item) => sum + (item.product.price * item.quantity), 0)
RECURSIVE getCartTotal(_)
getCartTotal(c) ==
    IF c = <<>> THEN 0
    ELSE getCartTotal(SubSeq(c, 1, Len(c) - 1))
            + (c[Len(c)].product.price * c[Len(c)].quantity)

\* getCartItemCount(): reduce((sum, item) => sum + item.quantity, 0)
RECURSIVE getCartItemCount(_)
getCartItemCount(c) ==
    IF c = <<>> THEN 0
    ELSE getCartItemCount(SubSeq(c, 1, Len(c) - 1)) + c[Len(c)].quantity

\* ------------------------------------------------- auth store operations
\* the initial state of useAuthStore
Anonymous ==
    [isLoggedIn |-> FALSE, user |-> Null, admin |-> Null,
     token |-> Null, userType |-> Null]

\* isCustomer(): state.isLoggedIn && state.userType === 'customer'
isCustomer(a) == a.isLoggedIn /\ a.userType = Tag("customer")

\* isAdmin(): state.isLoggedIn && state.userType === 'admin'
isAdmin(a) == a.isLoggedIn /\ a.userType = Tag("admin")

\* a call in flight: the function, its arguments, the state of the awaited
\* AsyncStorage promise, and what multiGet delivered (loadStoredAuth only)
NewCall(fn, token, who) ==
    [who |-> who, token |-> token, fn |-> fn,
     phase |-> "awaiting", data |-> NoKeys]

\* what the awaited AsyncStorage request does to the storage when it succeeds
StorageAfter(st, call) ==
    CASE call.fn = "loginUser" ->
            \* multiSet([auth_token, user_data, user_type])
            [st EXCEPT !["auth_token"] = call.token,
                       !["user_data"] = JSONstringify(call.who),
                       !["user_type"] = Tag("customer")]
      [] call.fn = "loginAdmin" ->
            \* multiSet([auth_token, admin_data, user_type])
            [st EXCEPT !["auth_token"] = call.token,
                       !["admin_data"] = JSONstringify(call.who),
                       !["user_type"] = Tag("admin")]
      [] call.fn = "logout" ->
            \* multiRemove of the four keys
            NoKeys
      [] OTHER ->
            \* multiGet reads
            st

\* a JavaScript value is truthy: here, a string that is not null (stored
\* strings are never empty)
Truthy(value) == value.kind # "null"

\* the customer branch of loadStoredAuth without the token test
ParsesUser_NoTokenCheck(data) ==
    /\ Truthy(data["user_type"])
    /\ data["user_type"] = Tag("customer") /\ Truthy(data["user_data"])

\* loadStoredAuth reaches JSON.parse(userData)
ParsesUser(data) ==
    /\ Truthy(data["auth_token"]) /\ Truthy(data["user_type"])
    /\ data["user_type"] = Tag("customer") /\ Truthy(data["user_data"])

\* loadStoredAuth reaches JSON.parse(adminData)
ParsesAdmin(data) ==
    /\ Truthy(data["auth_token"]) /\ Truthy(data["user_type"])
    /\ ~(data["user_type"] = Tag("customer") /\ Truthy(data["user_data"]))
    /\ data["user_type"] = Tag("admin") /\ Truthy(data["admin_data"])

\* a statement inside the try block throws: the awaited promise rejected,
\* or JSON.parse met a string that is not JSON
ThrowsInTry(call) ==
    \/ call.phase = "rejected"
    \/ /\ call.fn = "loadStoredAuth"
       /\ \/ ParsesUser(call.data) /\ ~Parseable(call.data["user_data"])
          \/ ParsesAdmin(call.data) /\ ~Parseable(call.data["admin_data"])

\* a catch that does not cover JSON.parse (the parse placed after the try)
Caught_OnlyRejections(call) == call.phase = "rejected"

\* the catch block of the function receives that exception: the try block
\* spans the whole body of each of the four functions
Caught(call) == ThrowsInTry(call)

\* how the promise the async function returned settles
PromiseOf(call) ==
    IF ThrowsInTry(call) /\ ~Caught(call) THEN "rejected" ELSE "resolved"

\* loginUser whose set() does not clear the admin record
loginUser_KeepsAdmin(a, call) ==
    IF ThrowsInTry(call) THEN a
    ELSE [a EXCEPT !.isLoggedIn = TRUE,
                   !.token = call.token,
                   !.user = call.who,
                   !.userType = Tag("customer")]

\* loginUser whose set() runs after the try/catch, failed write or not
loginUser_SetsOnFailure(a, call) ==
    [a EXCEPT !.isLoggedIn = TRUE,
              !.token = call.token,
              !.user = call.who,
              !.admin = Null,
              !.userType = Tag("customer")]

\* loginUser after its await: set({...}) unless the catch block ran
loginUser(a, call) ==
    IF ThrowsInTry(call) THEN a
    ELSE [a EXCEPT !.isLoggedIn = TRUE,
                   !.token = call.token,
                   !.user = call.who,
                   !.admin = Null,
                   !.userType = Tag("customer")]

\* loginAdmin whose set() does not clear the user record
loginAdmin_KeepsUser(a, call) ==
    IF ThrowsInTry(call) THEN a
    ELSE [a EXCEPT !.isLoggedIn = TRUE,
                   !.token = call.token,
                   !.admin = call.who,
                   !.userType = Tag("admin")]

\* loginAdmin whose set() runs after the try/catch, failed write or not
loginAdmin_SetsOnFailure(a, call) ==
    [a EXCEPT !.isLoggedIn = TRUE,
              !.token = call.token,
              !.admin = call.who,
              !.user = Null,
              !.userType = Tag("admin")]

\* loginAdmin after its await
loginAdmin(a, call) ==
    IF ThrowsInTry(call) THEN a
    ELSE [a EXCEPT !.isLoggedIn = TRUE,
                   !.token = call.token,
                   !.admin = call.who,
                   !.user = Null,
                   !.userType = Tag("admin")]

\* logout whose set() leaves the token in place
logout_KeepsToken(a, call) ==
    IF ThrowsInTry(call) THEN a
    ELSE [a EXCEPT !.isLoggedIn = FALSE,
                   !.user = Null,
                   !.admin = Null,
                   !.userType = Null]

\* logout after its await
logout(a, call) ==
    IF ThrowsInTry(call) THEN a
    ELSE [a EXCEPT !.isLoggedIn = FALSE,
                   !.user = Null,
                   !.admin = Null,
                   !.token = Null,
                   !.userType = Null]

\* loadStoredAuth after its await
loadStoredAuth(a, call) ==
    IF ThrowsInTry(call) THEN a
    ELSE IF ParsesUser(call.data)
    THEN [a EXCEPT !.isLoggedIn = TRUE,
                   !.token = call.data["auth_token"],
                   !.user = JSONparse(call.data["user_data"]),
                   !.admin = Null,
                   !.userType = Tag("customer")]
    ELSE IF ParsesAdmin(call.data)
    THEN [a EXCEPT !.isLoggedIn = TRUE,
                   !.token = call.data["auth_token"],
                   !.admin = JSONparse(call.data["admin_data"]),
                   !.user = Null,
                   !.userType = Tag("admin")]
    ELSE a

\* the state after the rest of the function has run
AuthAfter(a, call) ==
    CASE call.fn = "loginUser" -> loginUser(a, call)
      [] call.fn = "loginAdmin" -> loginAdmin(a, call)
      [] call.fn = "logout" -> logout(a, call)
      [] OTHER -> loadStoredAuth(a, call)

\* the function ran a set() that replaces the whole session
SetsSession(call) ==
    call.fn \in {"loginUser", "loginAdmin", "logout"} /\ ~ThrowsInTry(call)

Event(step, call, promise) == [call |-> call, step |-> step, promise |-> promise]

NoCall == NewCall("none", Null, Null)

\* ------------------------------------------------------------- screens
\* no call has been made since the store was last idle
NoRace == [started |-> <<>>, inflight |-> <<>>, done |-> <<>>]

\* Checkout as first rendered: useState(false), no onSubmit running
CheckoutCreated == [loading |-> FALSE, pc |-> "idle", effects |-> <<>>]

\* PaymentSuccess as first rendered: useState(true), useState(null),
\* useState(0); the mount effect has not run yet
PaymentSuccessCreated ==
    [loading |-> TRUE, effects |-> <<>>, paymentStatus |-> "null",
     pollingCount |-> 0, runs |-> EmptyBag]

\* the app before its first screen is shown
ScreensCreated ==
    /\ route = "launch"
    /\ race = NoRace
    /\ checkout = CheckoutCreated
    /\ poll = PaymentSuccessCreated

\* the auth store of a process that has just started on an empty storage
AuthCreated ==
    /\ auth = Anonymous
    /\ storage = NoKeys
    /\ calls = EmptyBag
    /\ ev = Event("create", NoCall, "none")
    /\ written = FALSE

\* ---------------------------------------------------------------- actions
Call(name, product, productId, newQuantity) ==
    [productId |-> productId, product |-> product,
     newQuantity |-> newQuantity, name |-> name]

Init ==
    /\ cart = <<>>
    /\ op = Call("create", NoProduct, 0, 0)
    /\ before = <<>>
    /\ addRun = 0
    /\ returned = <<>>
    /\ AuthCreated
    /\ ScreensCreated

\* a screen calls addToCart with a product object it fetched
CallAddToCart ==
    \E product \in Product :
        /\ cart' = addToCart(cart, product)
        /\ op' = Call("addToCart", product, product.id, 0)
        /\ before' = cart
        /\ addRun' = IF ~InCart(cart, product.id) THEN 1
                     ELSE IF /\ addRun > 0
                             /\ op.name = "addToCart"
                             /\ op.product = product
                          THEN Min(addRun + 1, MaxRun)
                          ELSE 0
        /\ returned' = <<>>
        /\ UNCHANGED authVars
        /\ UNCHANGED screenVars

CallRemoveFromCart ==
    \E productId \in ProductIds :
        /\ cart' = removeFromCart(cart, productId)
        /\ op' = Call("removeFromCart", NoProduct, productId, 0)
        /\ before' = cart
        /\ addRun' = 0
        /\ returned' = <<>>
        /\ UNCHANGED authVars
        /\ UNCHANGED screenVars

CallUpdateCartQuantity ==
    \E productId \in ProductIds, newQuantity \in Quantities :
        /\ cart' = updateCartQuantity(cart, productId, newQuantity)
        /\ op' = Call("updateCartQuantity", NoProduct, productId, newQuantity)
        /\ before' = cart
        /\ addRun' = 0
        /\ returned' = <<>>
        /\ UNCHANGED authVars
        /\ UNCHANGED screenVars

CallClearCart ==
    /\ cart' = clearCart(cart)
    /\ op' = Call("clearCart", NoProduct, 0, 0)
    /\ before' = cart
    /\ addRun' = 0
    /\ returned' = <<>>
    /\ UNCHANGED authVars
    /\ UNCHANGED screenVars

\* a screen reads the total; get() reads the state, nothing is set
CallGetCartTotal ==
    /\ cart' = cart
    /\ op' = Call("getCartTotal", NoProduct, 0, 0)
    /\ before' = cart
    /\ addRun' = 0
    /\ returned' = <<getCartTotal(cart)>>
    /\ UNCHANGED authVars
    /\ UNCHANGED screenVars

\* a screen reads the unit count; get() reads the state, nothing is set
CallGetCartItemCount ==
    /\ cart' = cart
    /\ op' = Call("getCartItemCount", NoProduct, 0, 0)
    /\ before' = cart
    /\ addRun' = 0
    /\ returned' = <<getCartItemCount(cart)>>
    /\ UNCHANGED authVars
    /\ UNCHANGED screenVars

Next ==
    \/ CallAddToCart
    \/ CallRemoveFromCart
    \/ CallUpdateCartQuantity
    \/ CallClearCart
    \/ CallGetCartTotal
    \/ CallGetCartItemCount

Spec == Init /\ [][Next]_vars

\* ------------------------------------------------------ auth store actions
\* the storage a successful login of that account leaves on empty storage
Saved(who) ==
    StorageAfter(NoKeys,
        NewCall(IF who.role = "customer" THEN "loginUser" ELSE "loginAdmin",
                TokenOf(who), who))

\* what a process can find in the device storage when it starts: nothing,
\* the session an earlier run saved, or that session with one key lost or
\* overwritten by a string the store did not write
StartupStorages ==
    {NoKeys}
    \cup {Saved(who) : who \in Users \cup Admins}
    \cup {[Saved(who) EXCEPT ![k] = v] :
            who \in Users \cup Admins, k \in Keys, v \in {Null, Garbage}}

AuthInit ==
    /\ cart = <<>>
    /\ op = Call("create", NoProduct, 0, 0)
    /\ before = <<>>
    /\ addRun = 0
    /\ returned = <<>>
    /\ auth = Anonymous
    /\ storage \in StartupStorages
    /\ calls = EmptyBag
    /\ ev = Event("create", NoCall, "none")
    /\ written = FALSE
    /\ ScreensCreated

\* a function of the store is called: it runs up to its await, which hands
\* the request to AsyncStorage
Start(call) ==
    /\ BagCardinality(calls) < MaxInFlight
    /\ calls' = calls (+) SetToBag({call})
    /\ ev' = Event("call", call, "pending")
    /\ UNCHANGED <<auth, storage, written>>
    /\ UNCHANGED cartVars

\* the login screen calls loginUser(result.access_token, result.user)
CallLoginUser ==
    \E user \in Users :
        /\ Start(NewCall("loginUser", TokenOf(user), user))
        /\ UNCHANGED screenVars

\* the admin login screen calls loginAdmin(result.access_token, result.admin)
CallLoginAdmin ==
    \E admin \in Admins :
        /\ Start(NewCall("loginAdmin", TokenOf(admin), admin))
        /\ UNCHANGED screenVars

\* the Logout button of the home screen
CallLogout ==
    /\ Start(NewCall("logout", Null, Null))
    /\ UNCHANGED screenVars

\* the home screen's mount effect
CallLoadStoredAuth ==
    /\ Start(NewCall("loadStoredAuth", Null, Null))
    /\ UNCHANGED screenVars

\* the call once its awaited AsyncStorage promise has been fulfilled
Fulfilled(call, st) ==
    [call EXCEPT !.phase = "fulfilled",
                 !.data = IF call.fn = "loadStoredAuth" THEN st ELSE NoKeys]

\* the call once its awaited AsyncStorage promise has been rejected
Rejected(call) == [call EXCEPT !.phase = "rejected"]

\* AsyncStorage carries out the request of that call
Succeeds(call) ==
    /\ call.phase = "awaiting"
    /\ storage' = StorageAfter(storage, call)
    /\ calls' = (calls (-) SetToBag({call}))
                    (+) SetToBag({Fulfilled(call, storage)})
    /\ ev' = Event("storage", Fulfilled(call, storage), "pending")
    /\ UNCHANGED <<auth, written>>
    /\ UNCHANGED cartVars

\* AsyncStorage fails the request of that call
Fails(call) ==
    /\ call.phase = "awaiting"
    /\ calls' = (calls (-) SetToBag({call})) (+) SetToBag({Rejected(call)})
    /\ ev' = Event("storage", Rejected(call), "pending")
    /\ UNCHANGED <<auth, storage, written>>
    /\ UNCHANGED cartVars

\* the event loop resumes that call, whose awaited promise has settled: the
\* rest of the function runs and its own promise settles
Resumes(call) ==
    /\ call.phase # "awaiting"
    /\ auth' = AuthAfter(auth, call)
    /\ calls' = calls (-) SetToBag({call})
    /\ ev' = Event("return", call, PromiseOf(call))
    /\ written' = (written \/ SetsSession(call))
    /\ UNCHANGED storage
    /\ UNCHANGED cartVars

\* AsyncStorage carries out the request of a call in flight
StorageSucceeds ==
    \E call \in BagToSet(calls) : Succeeds(call) /\ UNCHANGED screenVars

\* AsyncStorage fails the request of a call in flight
StorageFails ==
    \E call \in BagToSet(calls) : Fails(call) /\ UNCHANGED screenVars

\* the event loop resumes a call whose awaited promise has settled
Resume ==
    \E call \in BagToSet(calls) : Resumes(call) /\ UNCHANGED screenVars

AuthNext ==
    \/ CallLoginUser
    \/ CallLoginAdmin
    \/ CallLogout
    \/ CallLoadStoredAuth
    \/ StorageSucceeds
    \/ StorageFails
    \/ Resume

SpecAuth == AuthInit /\ [][AuthNext]_vars

\* ------------------------------------------- auth store: overlapping calls
\* The same store, with a record of each burst of calls: the calls made from
\* the moment the store was idle, what was in flight when each was made, and
\* the calls that returned, in the order they returned. A burst holds at most
\* MaxInFlight calls.
Begin(call) ==
    /\ calls # EmptyBag => Len(race.started) < MaxInFlight
    /\ Start(call)
    /\ race' = IF calls = EmptyBag
               THEN [started |-> <<call>>, inflight |-> <<calls>>,
                     done |-> <<>>]
               ELSE [race EXCEPT !.started = Append(@, call),
                                 !.inflight = Append(@, calls)]
    /\ UNCHANGED <<route, checkout, poll>>

BeginLoginUser ==
    \E user \in Users : Begin(NewCall("loginUser", TokenOf(user), user))

BeginLoginAdmin ==
    \E admin \in Admins : Begin(NewCall("loginAdmin", TokenOf(admin), admin))

BeginLogout == Begin(NewCall("logout", Null, Null))

BeginLoadStoredAuth == Begin(NewCall("loadStoredAuth", Null, Null))

\* the event loop resumes a call of the burst
Finish ==
    \E call \in BagToSet(calls) :
        /\ Resumes(call)
        /\ race' = [race EXCEPT !.done = Append(@, call)]
        /\ UNCHANGED <<route, checkout, poll>>

RaceNext ==
    \/ BeginLoginUser
    \/ BeginLoginAdmin
    \/ BeginLogout
    \/ BeginLoadStoredAuth
    \/ StorageSucceeds
    \/ StorageFails
    \/ Finish

SpecRace == AuthInit /\ [][RaceNext]_vars

\* ------------------------------------------------------- claim vocabulary
\* c with the item at index idx taken out, everything else in place
WithoutIndex(c, idx) == SubSeq(c, 1, idx - 1) \o SubSeq(c, idx + 1, Len(c))

\* c and d hold the same items at the same positions, except for the
\* quantity of the items with the given product id
SameExceptQuantityOf(c, d, productId) ==
    /\ Len(c) = Len(d)
    /\ \A i \in 1..Len(c) :
          /\ c[i].product = d[i].product
          /\ c[i].product.id # productId => c[i].quantity = d[i].quantity

\* C1: after any sequence of store calls, no item's quantity exceeds the
\* inventory of the product snapshot stored in that item, whatever product
\* object (same id, other inventory figure) addToCart was given.
C1_QuantityWithinSnapshotInventory ==
    \A i \in 1..Len(cart) : cart[i].quantity <= cart[i].product.inventory

\* C2: after any sequence of store calls, every item has quantity >= 1,
\* for every integer newQuantity given to updateCartQuantity.
C2_QuantityAtLeastOne ==
    \A i \in 1..Len(cart) : cart[i].quantity >= 1

\* C3: the cart never holds two items with the same product id.
C3_UniqueProductIds ==
    \A i, j \in 1..Len(cart) :
        cart[i].product.id = cart[j].product.id => i = j

\* C3 witness: addToCart was called for an id already in a two-item cart.
C3_Witness ==
    /\ op.name = "addToCart"
    /\ InCart(before, op.productId)
    /\ Len(cart) = 2
    /\ cart # before

\* C4: addToCart(product) for an id not in the cart and inventory > 0
\* appends exactly {product, quantity 1} at the end, keeps every existing
\* item in place, and raises getCartItemCount() by exactly 1.
C4_AddNewAppendsOne ==
    (/\ op.name = "addToCart"
     /\ ~InCart(before, op.productId)
     /\ op.product.inventory > 0)
    => /\ Len(cart) = Len(before) + 1
       /\ cart[Len(cart)] = CartItem(op.product, 1)
       /\ \A i \in 1..Len(before) : cart[i] = before[i]
       /\ getCartItemCount(cart) = getCartItemCount(before) + 1

\* C4 witness: a new product was added to a cart that already held an item.
C4_Witness ==
    /\ op.name = "addToCart"
    /\ ~InCart(before, op.productId)
    /\ op.product.inventory > 0
    /\ Len(before) = 1
    /\ Len(cart) = 2

\* C5: addToCart(product) with product.inventory = 0 leaves the cart exactly
\* as it was, whether or not an item with that id is in the cart.
C5_AddOutOfStockIsNoOp ==
    (op.name = "addToCart" /\ op.product.inventory = 0) => cart = before

\* C6: starting from a cart without p, n successive addToCart(p) calls with
\* p.inventory = k >= 1 leave p's quantity at min(n, k): each call adds
\* exactly 1 until the quantity is k, and every later call changes nothing.
C6_RepeatedAddSaturates ==
    (addRun > 0 /\ op.product.inventory >= 1)
    => /\ QuantityOf(cart, op.productId) = Min(addRun, op.product.inventory)
       /\ addRun > 1 =>
            IF addRun > op.product.inventory
            THEN cart = before
            ELSE /\ QuantityOf(cart, op.productId)
                        = QuantityOf(before, op.productId) + 1
                 /\ SameExceptQuantityOf(cart, before, op.productId)

\* C6 witness: one more addToCart(p) after the quantity had reached k = 2.
C6_Witness ==
    /\ addRun = 3
    /\ op.product.inventory = 2
    /\ QuantityOf(cart, op.productId) = 2
    /\ Len(cart) = 2

\* C7: for every cart and every product id, present or absent,
\* updateCartQuantity(id, 0) leaves the cart removeFromCart(id) leaves.
C7_UpdateToZeroIsRemove ==
    (op.name = "updateCartQuantity" /\ op.newQuantity = 0)
    => cart = removeFromCart(before, op.productId)

\* C7 witness: updateCartQuantity(id, 0) took an item out of a two-item cart.
C7_Witness ==
    /\ op.name = "updateCartQuantity"
    /\ op.newQuantity = 0
    /\ InCart(before, op.productId)
    /\ Len(before) = 2
    /\ Len(cart) = 1

\* C8: updateCartQuantity(id, q) with q above the inventory of the matching
\* item's product snapshot changes nothing in the cart.
C8_UpdateAboveInventoryRejected ==
    (/\ op.name = "updateCartQuantity"
     /\ InCart(before, op.productId)
     /\ op.newQuantity
            > before[FindIndex(before, op.productId)].product.inventory)
    => cart = before

\* C8 witness: an update above the snapshot inventory, on an item whose
\* quantity differs from the requested one.
C8_Witness ==
    /\ op.name = "updateCartQuantity"
    /\ InCart(before, op.productId)
    /\ op.newQuantity
           > before[FindIndex(before, op.productId)].product.inventory
    /\ QuantityOf(before, op.productId) = 1
    /\ Len(before) = 2

\* C9: updateCartQuantity(id, q) with 1 <= q <= inventory of the matching
\* item sets that item's quantity to q and keeps every other item and the
\* order; when no item has that id the cart is unchanged.
C9_UpdateInRangeSetsQuantity ==
    op.name = "updateCartQuantity"
    => IF InCart(before, op.productId)
       THEN (/\ 1 <= op.newQuantity
             /\ op.newQuantity
                  <= before[FindIndex(before, op.productId)].product.inventory)
            => /\ QuantityOf(cart, op.productId) = op.newQuantity
               /\ SameExceptQuantityOf(cart, before, op.productId)
       ELSE cart = before

\* C9 witness: an in-range update changed one quantity in a two-item cart.
C9_Witness ==
    /\ op.name = "updateCartQuantity"
    /\ InCart(before, op.productId)
    /\ op.newQuantity = 2
    /\ QuantityOf(before, op.productId) = 1
    /\ QuantityOf(cart, op.productId) = 2
    /\ Len(cart) = 2

\* C10: removeFromCart(productId) deletes the item with that id when there
\* is one and keeps all other items in their order; when no item has that
\* id the cart is unchanged.
C10_RemoveDeletesOnlyThatItem ==
    op.name = "removeFromCart"
    => IF InCart(before, op.productId)
       THEN /\ cart = WithoutIndex(before, FindIndex(before, op.productId))
            /\ ~InCart(cart, op.productId)
       ELSE cart = before

\* C10 witness: removeFromCart took the first item out of a two-item cart.
C10_Witness ==
    /\ op.name = "removeFromCart"
    /\ Len(before) = 2
    /\ before[1].product.id = op.productId
    /\ cart = <<before[2]>>

\* the sum of f over the line items of c, taken item by item from the front
RECURSIVE SumOfLines(_, _)
SumOfLines(c, withPrice) ==
    IF c = <<>> THEN 0
    ELSE (IF withPrice THEN Head(c).product.price * Head(c).quantity
                       ELSE Head(c).quantity)
         + SumOfLines(Tail(c), withPrice)

\* C11: in every reachable state getCartTotal() is the sum of
\* price * quantity over the items and getCartItemCount() the sum of the
\* quantities (units, not line items); a call of either returns that value
\* and leaves the cart as it was.
C11_TotalsAreSumsOverItems ==
    /\ getCartTotal(cart) = SumOfLines(cart, TRUE)
    /\ getCartItemCount(cart) = SumOfLines(cart, FALSE)
    /\ op.name = "getCartTotal"
         => cart = before /\ returned = <<SumOfLines(before, TRUE)>>
    /\ op.name = "getCartItemCount"
         => cart = before /\ returned = <<SumOfLines(before, FALSE)>>

\* C11 witness: the total was read from a two-item cart whose total (4)
\* differs from its unit count (3) and from its number of line items (2).
C11_Witness ==
    /\ op.name = "getCartTotal"
    /\ Len(cart) = 2
    /\ returned = <<4>>
    /\ getCartItemCount(cart) = 3

\* C12: from every cart, clearCart() leaves an empty cart, so that
\* getCartItemCount() and getCartTotal() are both 0 right afterwards.
C12_ClearEmptiesCart ==
    op.name = "clearCart"
    => /\ cart = <<>>
       /\ getCartItemCount(cart) = 0
       /\ getCartTotal(cart) = 0

\* C12 witness: clearCart was called on a two-item cart with a total.
C12_Witness ==
    /\ op.name = "clearCart"
    /\ Len(before) = 2
    /\ getCartTotal(before) > 0
    /\ cart = <<>>

\* ------------------------------------------- claim vocabulary: auth store
\* the last step was the return of a call of that function
Returned(fn) == ev.step = "return" /\ ev.call.fn = fn

\* the same, seen from the step that makes it
Returns(fn) == ev'.step = "return" /\ ev'.call.fn = fn

CustomerSession(user, token) ==
    [isLoggedIn |-> TRUE, user |-> user, admin |-> Null,
     token |-> token, userType |-> Tag("customer")]

AdminSession(admin, token) ==
    [isLoggedIn |-> TRUE, user |-> Null, admin |-> admin,
     token |-> token, userType |-> Tag("admin")]

\* the storage holds a token, that role tag and a parseable record
HoldsSession(st, role, key) ==
    /\ st["auth_token"] # Null
    /\ st["user_type"] = Tag(role)
    /\ st[key].kind = "json"

\* the session a fresh process gets from loadStoredAuth() on that storage
FreshLoad(st) ==
    loadStoredAuth(Anonymous,
                   Fulfilled(NewCall("loadStoredAuth", Null, Null), st))

\* C13: in every reachable state, under every interleaving of the four
\* functions, user and admin are never both non-null and isCustomer() and
\* isAdmin() are never both true.
C13_OneRoleAtATime ==
    /\ ~(auth.user # Null /\ auth.admin # Null)
    /\ ~(isCustomer(auth) /\ isAdmin(auth))

\* C13 witness: loginAdmin returned after a customer had been saved, while
\* another call was still in flight.
C13_Witness ==
    /\ Returned("loginAdmin")
    /\ ev.call.phase = "fulfilled"
    /\ storage["user_data"].kind = "json"
    /\ isAdmin(auth)
    /\ calls # EmptyBag

C15_LogoutClearsEverything ==
    Returned("logout")
    => /\ ~isCustomer(auth)
       /\ ~isAdmin(auth)
       /\ storage = NoKeys

\* C16 as claimed: loadStoredAuth() restores Customer (Admin) exactly when
\* the storage read holds a token, the tag 'customer' ('admin') and a
\* parseable record; in every other case the state after it is Anonymous.
C16_LoadRestoresOrAnonymous_AsClaimed ==
    Returned("loadStoredAuth")
    => LET data == ev.call.data
           read == ev.call.phase = "fulfilled"
       IN  IF read /\ HoldsSession(data, "customer", "user_data")
           THEN auth = CustomerSession(JSONparse(data["user_data"]),
                                       data["auth_token"])
           ELSE IF read /\ HoldsSession(data, "admin", "admin_data")
           THEN auth = AdminSession(JSONparse(data["admin_data"]),
                                    data["auth_token"])
           ELSE auth = Anonymous

\* C16 amended: loadStoredAuth() restores Customer (Admin) exactly when the
\* storage read holds a token, the tag 'customer' ('admin') and a parseable
\* record; in every other case (no keys, a missing or unparseable record, a
\* read error) it leaves the in-memory session as it was, which on a fresh
\* process is Anonymous.
C16_LoadRestoresOrKeeps ==
    [][Returns("loadStoredAuth")
       => LET data == ev'.call.data
              read == ev'.call.phase = "fulfilled"
          IN  IF read /\ HoldsSession(data, "customer", "user_data")
              THEN auth' = CustomerSession(JSONparse(data["user_data"]),
                                           data["auth_token"])
              ELSE IF read /\ HoldsSession(data, "admin", "admin_data")
              THEN auth' = AdminSession(JSONparse(data["admin_data"]),
                                        data["auth_token"])
              ELSE auth' = auth]_vars

\* C16 witness: loadStoredAuth returned from a read that held an unparseable
\* customer record, and a session was in place.
C16_Witness ==
    /\ Returned("loadStoredAuth")
    /\ ev.call.phase = "fulfilled"
    /\ ev.call.data["user_type"] = Tag("customer")
    /\ ev.call.data["user_data"] = Garbage
    /\ ev.call.data["auth_token"] # Null
    /\ isAdmin(auth)

\* C17: when the storage write of loginUser or loginAdmin fails, the return
\* of the call leaves the in-memory session exactly as it was.
C17_FailedLoginKeepsSession ==
    [][((Returns("loginUser") \/ Returns("loginAdmin"))
            /\ ev'.call.phase = "rejected")
       => auth' = auth]_vars

\* C17 witness: loginUser returned from a failed write and nobody is
\* logged in.
C17_Witness ==
    /\ Returned("loginUser")
    /\ ev.call.phase = "rejected"
    /\ auth = Anonymous

\* C18 as claimed: after a failed storage write the login still updates the
\* in-memory session to the new identity.
C18_FailedLoginStillUpdates_AsClaimed ==
    /\ (Returned("loginUser") /\ ev.call.phase = "rejected")
         => auth = CustomerSession(ev.call.who, ev.call.token)
    /\ (Returned("loginAdmin") /\ ev.call.phase = "rejected")
         => auth = AdminSession(ev.call.who, ev.call.token)

\* C18 amended: on a storage write failure during loginUser or loginAdmin
\* the in-memory session is not updated to the new identity; neither the
\* failing write nor the return of the call changes memory or storage, so
\* the failure adds no divergence between them.
C18_FailedLoginChangesNothing ==
    [][(/\ ev'.step \in {"storage", "return"}
        /\ ev'.call.fn \in {"loginUser", "loginAdmin"}
        /\ ev'.call.phase = "rejected")
       => auth' = auth /\ storage' = storage]_vars

\* C18 witness: loginAdmin returned from a failed write while a customer is
\* logged in and saved.
C18_Witness ==
    /\ Returned("loginAdmin")
    /\ ev.call.phase = "rejected"
    /\ isCustomer(auth)
    /\ FreshLoad(storage) = auth

C20_StorageMirrorsSession ==
    (calls = EmptyBag /\ written) => FreshLoad(storage) = auth

\* ----------------------------------------------------------- home screen
\* handleCustomerAccess: where the Customer Access button leads
handleCustomerAccess(a) ==
    IF isCustomer(a) THEN "/shop" ELSE "/auth/customer-login"

\* handleAdminAccess: where the Admin Access button leads
handleAdminAccess(a) ==
    IF isAdmin(a) THEN "/admin/dashboard" ELSE "/auth/admin-login"

\* the app starts: Index is rendered and its mount effect calls
\* loadStoredAuth(), which runs up to its await
IndexMounts ==
    /\ route = "launch"
    /\ route' = "/"
    /\ Start(NewCall("loadStoredAuth", Null, Null))
    /\ UNCHANGED <<race, checkout, poll>>

\* the user presses Customer Access on the home screen
PressCustomerAccess ==
    /\ route = "/"
    /\ route' = handleCustomerAccess(auth)
    /\ UNCHANGED <<race, checkout, poll>>
    /\ UNCHANGED <<cartVars, authVars>>

\* the user presses Admin Access on the home screen
PressAdminAccess ==
    /\ route = "/"
    /\ route' = handleAdminAccess(auth)
    /\ UNCHANGED <<race, checkout, poll>>
    /\ UNCHANGED <<cartVars, authVars>>

\* the user presses Logout, which the home screen shows when isLoggedIn
PressLogout ==
    /\ route = "/"
    /\ auth.isLoggedIn
    /\ Start(NewCall("logout", Null, Null))
    /\ UNCHANGED screenVars

HomeNext ==
    \/ IndexMounts
    \/ PressCustomerAccess
    \/ PressAdminAccess
    \/ PressLogout
    \/ StorageSucceeds
    \/ StorageFails
    \/ Resume

SpecHome == AuthInit /\ [][HomeNext]_vars

\* -------------------------------------------------------- checkout screen
\* what mockCartItems, which checkout.tsx reads and never declares, can be
\* when onSubmit runs: not bound (the read throws a ReferenceError), or bound
\* by something outside the source to an empty or a non-empty array
MockCartItems == {"undeclared", "empty", "items"}

Effect(step, what) == <<step, what>>

Log(c, step, what) == [c EXCEPT !.effects = Append(@, Effect(step, what))]

\* catch: Alert.alert('Error', ...), then finally: setLoading(false)
catchFinally(c) ==
    [Log(c, "alert", "Error") EXCEPT !.loading = FALSE, !.pc = "idle"]

\* onSubmit up to its first await
onSubmit(c, mockCartItems) ==
    CASE mockCartItems = "undeclared" ->
            \* mockCartItems.length throws before the try block
            [c EXCEPT !.effects = <<Effect("throw", "ReferenceError")>>]
      [] mockCartItems = "empty" ->
            [c EXCEPT !.effects = <<Effect("alert", "Error")>>]
      [] OTHER ->
            \* setLoading(true); fetch(`/api/orders`, POST)
            [c EXCEPT !.loading = TRUE,
                      !.pc = "order",
                      !.effects = <<Effect("order", "sent")>>]

\* onSubmit whose two fetch results are not tested with response.ok
afterFetch_IgnoresOk(c, response) ==
    CASE response = "rejected" -> catchFinally(Log(c, c.pc, "rejected"))
      [] OTHER ->
            [Log(c, c.pc, response)
                EXCEPT !.pc = IF c.pc = "order" THEN "orderBody"
                              ELSE "paymentBody"]

\* onSubmit resumed after await fetch(...): c.pc is "order" or "payment"
afterFetch(c, response) ==
    CASE response = "rejected" -> catchFinally(Log(c, c.pc, "rejected"))
      [] response = "notOk" ->
            \* await response.json() for the error detail
            [Log(c, c.pc, "notOk")
                EXCEPT !.pc = IF c.pc = "order" THEN "orderError"
                              ELSE "paymentError"]
      [] OTHER ->
            \* await response.json() for the order / the payment session
            [Log(c, c.pc, "ok")
                EXCEPT !.pc = IF c.pc = "order" THEN "orderBody"
                              ELSE "paymentBody"]

\* onSubmit resumed after await response.json()
afterJson(c, parsed) ==
    CASE c.pc = "orderBody" /\ parsed ->
            \* fetch(`/api/payments/checkout`, POST)
            [Log(c, "payment", "sent") EXCEPT !.pc = "payment"]
      [] c.pc = "paymentBody" /\ parsed ->
            \* Linking.openURL(checkout_url)
            [Log(c, "url", "opening") EXCEPT !.pc = "openURL"]
      [] OTHER ->
            \* throw new Error(detail), or json() itself threw
            catchFinally(c)

\* onSubmit resumed after await Linking.openURL(...)
afterOpenURL(c, opened) ==
    IF opened
    THEN [Log(c, "url", "opened") EXCEPT !.loading = FALSE, !.pc = "idle"]
    ELSE catchFinally(Log(c, "url", "rejected"))

\* the app with the Checkout screen shown
CheckoutInit ==
    /\ cart = <<>>
    /\ op = Call("create", NoProduct, 0, 0)
    /\ before = <<>>
    /\ addRun = 0
    /\ returned = <<>>
    /\ AuthCreated
    /\ route = "/shop/checkout"
    /\ race = NoRace
    /\ checkout = CheckoutCreated
    /\ poll = PaymentSuccessCreated

\* the user presses Complete Order, enabled while loading is false
PressCompleteOrder ==
    \E mockCartItems \in MockCartItems :
        /\ ~checkout.loading
        /\ checkout' = onSubmit(checkout, mockCartItems)
        /\ UNCHANGED <<route, race, poll>>
        /\ UNCHANGED <<cartVars, authVars>>

\* the backend answers the order or the payment-session request
FetchSettles ==
    \E response \in {"ok", "notOk", "rejected"} :
        /\ checkout.pc \in {"order", "payment"}
        /\ checkout' = afterFetch(checkout, response)
        /\ UNCHANGED <<route, race, poll>>
        /\ UNCHANGED <<cartVars, authVars>>

\* the body of the answer has been read
JsonSettles ==
    \E parsed \in BOOLEAN :
        /\ checkout.pc \in {"orderBody", "orderError",
                             "paymentBody", "paymentError"}
        /\ checkout' = afterJson(checkout, parsed)
        /\ UNCHANGED <<route, race, poll>>
        /\ UNCHANGED <<cartVars, authVars>>

\* the platform has opened the checkout URL, or refused to
OpenURLSettles ==
    \E opened \in BOOLEAN :
        /\ checkout.pc = "openURL"
        /\ checkout' = afterOpenURL(checkout, opened)
        /\ UNCHANGED <<route, race, poll>>
        /\ UNCHANGED <<cartVars, authVars>>

\* the cart changes behind the Checkout screen: an item is added
ShopAddToCart ==
    \E product \in Product :
        /\ cart' = addToCart(cart, product)
        /\ UNCHANGED <<op, before, addRun, returned>>
        /\ UNCHANGED <<authVars, screenVars>>

CheckoutNext ==
    \/ PressCompleteOrder
    \/ FetchSettles
    \/ JsonSettles
    \/ OpenURLSettles
    \/ ShopAddToCart

SpecCheckout == CheckoutInit /\ [][CheckoutNext]_vars

\* ------------------------------------------------- payment-success screen
MaxRuns == 1          \* polls that run at one time
MaxPolls == 12        \* the value pollingCount is followed up to
MAX_POLLING_ATTEMPTS == 10

\* a started poll: pollPaymentStatus as created by one render, which closes
\* over the pollingCount of that render (seen); the status requests it has
\* sent; where it waits: in fetch, in response.json() or in its timer
NewRun(seen) == [seen |-> seen, requests |-> 1, at |-> "fetch"]

Without(p, run) == [p EXCEPT !.runs = @ (-) SetToBag({run})]

Moved(p, run, next) ==
    [p EXCEPT !.runs = (@ (-) SetToBag({run})) (+) SetToBag({next})]

\* catch: setLoading(false); Alert.alert('Error', ...)
pollCatch(p, run, why) ==
    [Without(p, run) EXCEPT !.loading = FALSE,
                            !.effects = <<why, Effect("alert", "Error")>>]

\* pollPaymentStatus resumed after await fetch(...)
afterStatusFetch(p, run, response) ==
    IF response = "ok"
    THEN [Moved(p, run, [run EXCEPT !.at = "json"])
             EXCEPT !.effects = <<Effect("fetch", "ok")>>]
    ELSE pollCatch(p, run, Effect("fetch", response))

\* pollPaymentStatus that keeps polling a session that has expired
afterStatusJson_PollsExpired(p, run, status) ==
    CASE status = "throws" -> pollCatch(p, run, Effect("status", "throws"))
      [] status = "paid" ->
            [Without(p, run) EXCEPT !.paymentStatus = status,
                                    !.loading = FALSE,
                                    !.effects = <<Effect("status", status)>>]
      [] run.seen >= MAX_POLLING_ATTEMPTS ->
            [Without(p, run) EXCEPT !.paymentStatus = status,
                                    !.loading = FALSE,
                                    !.effects = <<Effect("status", status)>>]
      [] OTHER ->
            [Moved(p, run, [run EXCEPT !.at = "timer"])
                EXCEPT !.paymentStatus = status,
                       !.effects = <<Effect("status", status),
                                     Effect("timer", "set")>>]

\* pollPaymentStatus resumed after await response.json(): status is "paid"
\* (payment_status 'paid'), "expired" (status 'expired', not paid) or
\* "pending" (neither); "throws" when the body is not JSON
afterStatusJson(p, run, status) ==
    CASE status = "throws" -> pollCatch(p, run, Effect("status", "throws"))
      [] status = "paid" ->
            [Without(p, run) EXCEPT !.paymentStatus = status,
                                    !.loading = FALSE,
                                    !.effects = <<Effect("status", status)>>]
      [] status = "expired" \/ run.seen >= MAX_POLLING_ATTEMPTS ->
            [Without(p, run) EXCEPT !.paymentStatus = status,
                                    !.loading = FALSE,
                                    !.effects = <<Effect("status", status)>>]
      [] OTHER ->
            \* setTimeout(..., 2000)
            [Moved(p, run, [run EXCEPT !.at = "timer"])
                EXCEPT !.paymentStatus = status,
                       !.effects = <<Effect("status", status),
                                     Effect("timer", "set")>>]

\* the timer callback: setPollingCount(prev => prev + 1), then the same
\* pollPaymentStatus again, up to its await fetch(...)
timerFired(p, run) ==
    [Moved(p, run, [run EXCEPT !.at = "fetch", !.requests = @ + 1])
        EXCEPT !.pollingCount = @ + 1,
               !.effects = <<Effect("timer", "fired"),
                             Effect("request", "sent")>>]

\* pollPaymentStatus of the current render, up to its await fetch(...)
pollPaymentStatus(p) ==
    [p EXCEPT !.runs = @ (+) SetToBag({NewRun(p.pollingCount)}),
              !.effects = <<Effect("request", "sent")>>]

\* the payment provider returns to the app: PaymentSuccess is rendered and
\* its effect runs, with or without a session_id in the URL
PaymentSuccessMounts ==
    \E session_id \in BOOLEAN :
        /\ route = "launch"
        /\ route' = "/payment-success"
        /\ poll' = IF session_id
                   THEN pollPaymentStatus(poll)
                   ELSE [poll EXCEPT !.loading = FALSE,
                                     !.effects = <<Effect("alert", "Error")>>]
        /\ UNCHANGED <<race, checkout>>
        /\ UNCHANGED <<cartVars, authVars>>

\* the backend answers a status request
StatusFetchSettles ==
    \E run \in BagToSet(poll.runs), response \in {"ok", "notOk", "rejected"} :
        /\ run.at = "fetch"
        /\ poll' = afterStatusFetch(poll, run, response)
        /\ UNCHANGED <<route, race, checkout>>
        /\ UNCHANGED <<cartVars, authVars>>

\* the body of a status answer has been read
StatusJsonSettles ==
    \E run \in BagToSet(poll.runs),
       status \in {"paid", "expired", "pending", "throws"} :
        /\ run.at = "json"
        /\ poll' = afterStatusJson(poll, run, status)
        /\ UNCHANGED <<route, race, checkout>>
        /\ UNCHANGED <<cartVars, authVars>>

\* two seconds have passed since a poll set its timer
TimerFires ==
    \E run \in BagToSet(poll.runs) :
        /\ run.at = "timer"
        /\ poll.pollingCount < MaxPolls
        /\ poll' = timerFired(poll, run)
        /\ UNCHANGED <<route, race, checkout>>
        /\ UNCHANGED <<cartVars, authVars>>

\* the user presses Check Again, shown when loading is false and the last
\* status is not paid
PressCheckAgain ==
    /\ route = "/payment-success"
    /\ ~poll.loading
    /\ poll.paymentStatus # "paid"
    /\ BagCardinality(poll.runs) < MaxRuns
    /\ poll' = [pollPaymentStatus(poll)
                  EXCEPT !.effects = <<Effect("press", "Check Again")>> \o @]
    /\ UNCHANGED <<route, race, checkout>>
    /\ UNCHANGED <<cartVars, authVars>>

PollNext ==
    \/ PaymentSuccessMounts
    \/ StatusFetchSettles
    \/ StatusJsonSettles
    \/ TimerFires
    \/ PressCheckAgain

SpecPoll == Init /\ [][PollNext]_vars

\* ------------------------------------- claim vocabulary: overlapping calls
Logins == {"loginUser", "loginAdmin"}

\* every call of the burst has returned
RaceOver ==
    /\ calls = EmptyBag
    /\ race.started # <<>>
    /\ Len(race.done) = Len(race.started)

\* every storage request of the burst succeeded
AllFulfilled == \A i \in 1..Len(race.done) : race.done[i].phase = "fulfilled"

\* the session the set() of that call puts in memory
SessionOf(call) ==
    CASE call.fn = "loginUser" -> CustomerSession(call.who, call.token)
      [] call.fn = "loginAdmin" -> AdminSession(call.who, call.token)
      [] OTHER -> Anonymous

\* the storage holds what the storage request of that call leaves
StorageReflects(st, call) ==
    CASE call.fn = "loginUser" ->
            /\ st["auth_token"] = call.token
            /\ st["user_type"] = Tag("customer")
            /\ st["user_data"] = JSONstringify(call.who)
      [] call.fn = "loginAdmin" ->
            /\ st["auth_token"] = call.token
            /\ st["user_type"] = Tag("admin")
            /\ st["admin_data"] = JSONstringify(call.who)
      [] OTHER -> st = NoKeys

\* the burst was a login, then a logout made while the storage write of the
\* login was still pending
LogoutDuringLogin ==
    /\ Len(race.started) = 2
    /\ race.started[1].fn \in Logins
    /\ race.started[2].fn = "logout"
    /\ BagIn(race.started[1], race.inflight[2])

\* C21: when logout() is issued while the storage write of a login is still
\* pending and both storage requests succeed, then once both calls have
\* returned memory and storage reflect the same one of the two calls: both
\* hold that login, or both are cleared.
C21_LogoutLoginRaceAgrees ==
    (RaceOver /\ LogoutDuringLogin /\ AllFulfilled)
    => \E i \in 1..2 :
          /\ auth = SessionOf(race.started[i])
          /\ StorageReflects(storage, race.started[i])

\* ------------------------------------------ claim vocabulary: home screen
\* a loadStoredAuth() has been called and has not returned
Restoring == \E call \in BagToSet(calls) : call.fn = "loadStoredAuth"

\* C22: on the home screen an access press never leads a user whose storage
\* holds a valid session of that role to the login screen while the
\* loadStoredAuth() of the mount effect has not returned.
C22_NoLoginScreenWhileRestoring ==
    /\ (route = "/auth/customer-login" /\ Restoring)
         => ~HoldsSession(storage, "customer", "user_data")
    /\ (route = "/auth/admin-login" /\ Restoring)
         => ~HoldsSession(storage, "admin", "admin_data")

\* -------------------------------------- claim vocabulary: checkout screen
\* the step just taken ended an onSubmit that set loading
Ends == checkout.loading /\ ~checkout'.loading

\* the onSubmit that just ended handed over: order created, payment session
\* created, checkout URL opened
HandsOver ==
    /\ Ends
    /\ checkout'.effects[Len(checkout'.effects)] = Effect("url", "opened")

Ordered(effects) ==
    \A i \in 1..Len(effects) :
        /\ effects[i] = Effect("payment", "sent")
              => i > 1 /\ effects[i - 1] = Effect("order", "ok")
        /\ effects[i] = Effect("url", "opening")
              => i > 1 /\ effects[i - 1] = Effect("payment", "ok")

StepFailures ==
    {Effect(step, what) : step \in {"order", "payment", "url"},
                          what \in {"notOk", "rejected"}}

\* a failed step is the last thing onSubmit did, but for reading the error
\* body and showing the alert
FailureStops(c) ==
    \A i \in 1..Len(c.effects) :
        c.effects[i] \in StepFailures
        => \/ i = Len(c.effects) /\ c.pc \in {"orderError", "paymentError"}
           \/ /\ i + 1 = Len(c.effects)
              /\ c.effects[i + 1] = Effect("alert", "Error")
              /\ c.pc = "idle"

\* an onSubmit that has sent its order request and has ended, ended with
\* the alert or with the checkout URL opened
EndsInAlertOrHandoff(c) ==
    (c.pc = "idle" /\ c.effects # <<>>
        /\ c.effects[1] = Effect("order", "sent"))
    => c.effects[Len(c.effects)]
          \in {Effect("alert", "Error"), Effect("url", "opened")}

\* d continues the onSubmit of c
Continues(d, c) ==
    /\ Len(d.effects) > Len(c.effects)
    /\ SubSeq(d.effects, 1, Len(c.effects)) = c.effects

C24_PollingStopsAtMax ==
    \A run \in BagToSet(poll.runs) :
        /\ run.requests <= MAX_POLLING_ATTEMPTS + 1
        /\ run.at = "timer" => poll.pollingCount < MAX_POLLING_ATTEMPTS

\* the step just taken was pollPaymentStatus handling that answer
Handles(step, what) ==
    /\ poll' # poll
    /\ poll'.effects[1] = Effect(step, what)

\* an answer that says paid or expired, or a status request that failed
HandlesFinalAnswer ==
    \/ Handles("status", "paid")
    \/ Handles("status", "expired")
    \/ Handles("fetch", "notOk")
    \/ Handles("fetch", "rejected")

Schedules(effects) ==
    \E i \in 1..Len(effects) :
        effects[i] \in {Effect("timer", "set"), Effect("request", "sent")}

WritesAloneOver(fn, who) ==
    /\ ev'.step = "storage"
    /\ ev'.call.fn = fn
    /\ ev'.call.phase = "fulfilled"
    /\ calls' = SetToBag({ev'.call})
    /\ storage = Saved(who)

\* C27: the storage never comes to hold a serialized user record and a
\* serialized admin record at the same time: a successful login of one role
\* that follows a successful login of the other role leaves no persisted
\* record of the other role.
C27_OneRecordPersisted ==
    [][/\ \A admin \in Admins :
             WritesAloneOver("loginUser", admin)
             => ~Parseable(storage'["admin_data"])
       /\ \A user \in Users :
             WritesAloneOver("loginAdmin", user)
             => ~Parseable(storage'["user_data"])]_vars

\* C28: in every reachable state of the store isLoggedIn is true iff token
\* is non-null iff userType is non-null, userType is 'customer' iff user is
\* non-null and userType is 'admin' iff admin is non-null.
C28_FieldsConsistent ==
    /\ auth.isLoggedIn <=> auth.token # Null
    /\ auth.isLoggedIn <=> auth.userType # Null
    /\ auth.userType = Tag("customer") <=> auth.user # Null
    /\ auth.userType = Tag("admin") <=> auth.admin # Null

\* C28 witness: loadStoredAuth returned a customer session read from a
\* storage that also holds the record of an admin.
C28_Witness ==
    /\ Returned("loadStoredAuth")
    /\ ev.call.data["admin_data"].kind = "json"
    /\ isCustomer(auth)
    /\ auth.admin = Null

\* C29: when a loadStoredAuth() overlaps a loginUser, loginAdmin or logout
\* whose storage request succeeds, then once both calls have returned the
\* in-memory session is the one that login or logout set, not an identity
\* read from the storage.
C29_LoadNeverOverridesSession ==
    (RaceOver /\ Len(race.started) = 2)
    => \A i, j \in 1..2 :
          (/\ race.done[i].fn = "loadStoredAuth"
           /\ race.done[j].fn \in Logins \cup {"logout"}
           /\ race.done[j].phase = "fulfilled")
          => auth = SessionOf(race.done[j])

\* ------------------------------------------------------- login screens
\* handleLogin and handleRegister after a successful backend response: they
\* await loginUser / loginAdmin; the success alert follows when that promise
\* resolves, the catch block's error alert when it rejects
handleLogin(promise) ==
    IF promise = "resolved" THEN "Login Successful!" ELSE "Login Error"

\* C30: whenever a login screen shows its success alert, the AuthStore holds
\* the session of the account the backend returned, whatever the outcome of
\* the storage write.
C30_SuccessAlertMeansLoggedIn ==
    \A fn \in Logins :
        (Returned(fn) /\ handleLogin(ev.promise) = "Login Successful!")
        => auth = SessionOf(ev.call)

====
